---- MODULE Spec2Model ----
(***************************************************************************)
(* Inventory manager (src/src/inventory/services.py) driven by the console *)
(* menu (src/src/inventory/cli.py).  Several console sessions share one    *)
(* store.  A session reads the inputs of a menu entry (a prompt step) and  *)
(* then runs the InventoryManager method behind it (a handler step).       *)
(*                                                                         *)
(* The store (inventory/repository.py), the Product model, the JSON loader *)
(* and the exception classes are not part of the sources at hand: their    *)
(* behaviour is taken from sections 3, 4 and 7 of the specification.       *)
(*                                                                         *)
(* Units: unit_price_ht is an integer amount, vat_rate is the rate in      *)
(* hundredths (0..Percent stands for 0..1), and the three totals of a sale *)
(* are kept in hundredths of the price unit, so that                       *)
(* total_vat = total_ht * vat_rate is exact.                               *)
(* The columns id and created_at are assigned by the store and read by no  *)
(* operation of the manager; the table is kept in insertion order instead. *)
(***************************************************************************)
EXTENDS Integers, Sequences, FiniteSets, TLC

\* ---- bounds of the model ----
MaxSales == 2
MaxStock == 2
MaxImport == 2

\* ---- program constant: vat_rate ranges over 0..1, counted in hundredths ----
Percent == 100

\* The console sessions that share the store.
Procs == {"s1", "s2"}
SKUs == {"A", "B"}
NoProduct == [sku |-> "none"]
NoValue == [kind |-> "none"]

VARIABLES products, sales, pc, req, res

vars == <<products, sales, pc, req, res>>

\* ---- store: products table (repository.py, from the specification) ----

RECURSIVE get_product_by_sku(_, _)
get_product_by_sku(table, sku) ==
    IF table = <<>> THEN NoProduct
    ELSE IF Head(table).sku = sku THEN Head(table)
    ELSE get_product_by_sku(Tail(table), sku)

skus_of(table) == {table[i].sku : i \in 1..Len(table)}

list_products(table) == table

insert_product(table, prod) ==
    IF prod.sku \in skus_of(table)
    THEN [err |-> "ConstraintViolation", products |-> table]
    ELSE [err |-> "none", products |-> Append(table, prod)]

\* An optional argument: <<>> is Python's None, <<v>> is the value v.
None == <<>>
Some(v) == <<v>>
or_else(opt, prior) == IF opt = None THEN prior ELSE opt[1]

RECURSIVE replace_row(_, _, _)
replace_row(table, sku, row) ==
    IF table = <<>> THEN <<>>
    ELSE IF Head(table).sku = sku THEN <<row>> \o Tail(table)
    ELSE <<Head(table)>> \o replace_row(Tail(table), sku, row)

RECURSIVE remove_row(_, _)
remove_row(table, sku) ==
    IF table = <<>> THEN <<>>
    ELSE IF Head(table).sku = sku THEN Tail(table)
    ELSE <<Head(table)>> \o remove_row(Tail(table), sku)

\* UPDATE products SET the given columns WHERE sku = ?; NotFound when no row matches.
repo_update_product(table, sku, name, category, unit_price_ht, quantity, vat_rate) ==
    LET old == get_product_by_sku(table, sku)
    IN  IF old = NoProduct
        THEN [err |-> "NotFound", products |-> table]
        ELSE [err |-> "none",
              products |-> replace_row(table, sku,
                  [sku |-> sku,
                   name |-> or_else(name, old.name),
                   category |-> or_else(category, old.category),
                   unit_price_ht |-> or_else(unit_price_ht, old.unit_price_ht),
                   quantity |-> or_else(quantity, old.quantity),
                   vat_rate |-> or_else(vat_rate, old.vat_rate)])]

repo_delete_product(table, sku) ==
    IF get_product_by_sku(table, sku) = NoProduct
    THEN [err |-> "NotFound", products |-> table]
    ELSE [err |-> "none", products |-> remove_row(table, sku)]

\* DROP + CREATE of the products table; the sales ledger is append-only.
reset_and_create_schema(table) == <<>>

create_schema_if_needed(table) == table

\* ---- store: the sale as one unit of work (repository.py, from the specification) ----

sale_record(prod, quantity) ==
    LET total_ht == quantity * prod.unit_price_ht * Percent
        total_vat == quantity * prod.unit_price_ht * prod.vat_rate
    IN  [sku |-> prod.sku, quantity |-> quantity,
         unit_price_ht |-> prod.unit_price_ht, vat_rate |-> prod.vat_rate,
         total_ht |-> total_ht, total_vat |-> total_vat,
         total_ttc |-> total_ht + total_vat]

sale_summary(rec) ==
    [kind |-> "sale", sku |-> rec.sku, quantity |-> rec.quantity,
     total_ht |-> rec.total_ht, total_vat |-> rec.total_vat,
     total_ttc |-> rec.total_ttc]

sell_product_transaction(table, ledger, sku, quantity) ==
    LET prod == get_product_by_sku(table, sku)
    IN  IF prod = NoProduct
        THEN [err |-> "NotFound", products |-> table, sales |-> ledger,
              value |-> NoValue]
        ELSE IF prod.quantity < quantity
        THEN [err |-> "InsufficientStock", products |-> table, sales |-> ledger,
              value |-> NoValue]
        ELSE LET rec == sale_record(prod, quantity)
             IN  [err |-> "none",
                  products |-> replace_row(table, sku,
                                  [prod EXCEPT !.quantity = prod.quantity - quantity]),
                  sales |-> Append(ledger, rec),
                  value |-> sale_summary(rec)]

\* ---- InventoryManager (services.py) ----

\* sell_product written in the manager: the stock is lowered through the store's
\* update and no sale is recorded.
sell_product_via_update(table, ledger, sku, quantity) ==
    LET prod == get_product_by_sku(table, sku)
    IN  IF quantity <= 0
        THEN [err |-> "ValueError", products |-> table, sales |-> ledger,
              value |-> NoValue]
        ELSE IF prod = NoProduct
        THEN [err |-> "NotFound", products |-> table, sales |-> ledger,
              value |-> NoValue]
        ELSE IF prod.quantity < quantity
        THEN [err |-> "InsufficientStock", products |-> table, sales |-> ledger,
              value |-> NoValue]
        ELSE [err |-> "none",
              products |-> replace_row(table, sku,
                              [prod EXCEPT !.quantity = prod.quantity - quantity]),
              sales |-> ledger,
              value |-> sale_summary(sale_record(prod, quantity))]

\* sell_product with the validation off by one (quantity <= 1).
sell_product_off_by_one(table, ledger, sku, quantity) ==
    IF quantity <= 1
    THEN [err |-> "ValueError", products |-> table, sales |-> ledger,
          value |-> NoValue]
    ELSE sell_product_transaction(table, ledger, sku, quantity)

\* sell_product with the validation letting zero through (quantity < 0).
sell_product_zero_passes(table, ledger, sku, quantity) ==
    IF quantity < 0
    THEN [err |-> "ValueError", products |-> table, sales |-> ledger,
          value |-> NoValue]
    ELSE sell_product_transaction(table, ledger, sku, quantity)

\* sell_product swallowing the store's failure in a try/except.
sell_product_swallows(table, ledger, sku, quantity) ==
    IF quantity <= 0
    THEN [err |-> "ValueError", products |-> table, sales |-> ledger,
          value |-> NoValue]
    ELSE [sell_product_transaction(table, ledger, sku, quantity)
            EXCEPT !.err = "none"]

sell_product(table, ledger, sku, quantity) ==
    IF quantity <= 0
    THEN [err |-> "ValueError", products |-> table, sales |-> ledger,
          value |-> NoValue]
    ELSE sell_product_transaction(table, ledger, sku, quantity)

\* update_product's validations without the check of quantity.
update_fields_valid_no_quantity(unit_price_ht, quantity, vat_rate) ==
    /\ ~(unit_price_ht # None /\ unit_price_ht[1] < 0)
    /\ ~(vat_rate # None /\ ~(0 <= vat_rate[1] /\ vat_rate[1] <= Percent))

\* The validations that open update_product: an absent (None) field passes.
update_fields_valid(unit_price_ht, quantity, vat_rate) ==
    /\ ~(unit_price_ht # None /\ unit_price_ht[1] < 0)
    /\ ~(quantity # None /\ quantity[1] < 0)
    /\ ~(vat_rate # None /\ ~(0 <= vat_rate[1] /\ vat_rate[1] <= Percent))

\* update_product validating after the store was updated.
update_product_validates_late(table, sku, name, category, unit_price_ht, quantity, vat_rate) ==
    LET r == repo_update_product(table, sku, name, category, unit_price_ht,
                                 quantity, vat_rate)
    IN  IF r.err = "none" /\ ~update_fields_valid(unit_price_ht, quantity, vat_rate)
        THEN [r EXCEPT !.err = "ValueError"]
        ELSE r

update_product(table, sku, name, category, unit_price_ht, quantity, vat_rate) ==
    IF ~update_fields_valid(unit_price_ht, quantity, vat_rate)
    THEN [err |-> "ValueError", products |-> table]
    ELSE repo_update_product(table, sku, name, category, unit_price_ht,
                             quantity, vat_rate)

delete_product(table, sku) == repo_delete_product(table, sku)

list_inventory(table) == list_products(create_schema_if_needed(table))

\* The validations that open add_product.
add_fields_valid(unit_price_ht, quantity, vat_rate) ==
    /\ ~(unit_price_ht < 0)
    /\ ~(quantity < 0)
    /\ 0 <= vat_rate /\ vat_rate <= Percent

\* First half of add_product: the validations, then the lookup of the SKU.
add_product_check(table, prod) ==
    IF ~add_fields_valid(prod.unit_price_ht, prod.quantity, prod.vat_rate)
    THEN "ValueError"
    ELSE IF get_product_by_sku(table, prod.sku) # NoProduct
    THEN "ValueError"
    ELSE "none"

\* Second half of add_product: the insert.
add_product_insert(table, prod) == insert_product(table, prod)

\* ---- bulk import ----

ItemFields == {"sku", "name", "category", "unit_price_ht", "quantity", "vat_rate"}

\* A descriptor of the JSON payload: each key is absent (None) or carries a value.
item_complete(p) == \A f \in ItemFields : p[f] # None

item_valid(p) ==
    /\ item_complete(p)
    /\ p.unit_price_ht[1] >= 0
    /\ p.quantity[1] >= 0
    /\ 0 <= p.vat_rate[1] /\ p.vat_rate[1] <= Percent

\* utils.load_initial_json (from the specification): a malformed payload is an
\* ImportError raised before the manager touches the store.
load_initial_json(payload) ==
    IF \A i \in 1..Len(payload) : item_valid(payload[i])
    THEN [err |-> "none", products |-> payload]
    ELSE [err |-> "ImportError", products |-> <<>>]

\* Product(sku=p["sku"], ...): the row built from one descriptor.
Product(p) ==
    [sku |-> p.sku[1], name |-> p.name[1], category |-> p.category[1],
     unit_price_ht |-> p.unit_price_ht[1], quantity |-> p.quantity[1],
     vat_rate |-> p.vat_rate[1]]

\* The loop of initialize_from_json: p["..."] of an absent key is a KeyError, a
\* failed insert leaves the loop with the rows inserted so far.
RECURSIVE insert_loop(_, _, _)
insert_loop(table, items, count) ==
    IF items = <<>> THEN [err |-> "none", products |-> table, value |-> count]
    ELSE IF ~item_complete(Head(items))
    THEN [err |-> "KeyError", products |-> table, value |-> count]
    ELSE LET r == insert_product(table, Product(Head(items)))
         IN  IF r.err # "none"
             THEN [err |-> r.err, products |-> r.products, value |-> count]
             ELSE insert_loop(r.products, Tail(items), count + 1)

\* initialize_from_json reading the payload without load_initial_json.
initialize_from_json_unchecked(table, payload, reset) ==
    insert_loop(IF reset THEN reset_and_create_schema(table)
                ELSE create_schema_if_needed(table),
                payload, 0)

\* initialize_from_json that never resets the schema.
initialize_from_json_no_reset(table, payload, reset) ==
    LET loaded == load_initial_json(payload)
    IN  IF loaded.err # "none"
        THEN [err |-> loaded.err, products |-> table, value |-> 0]
        ELSE insert_loop(create_schema_if_needed(table), loaded.products, 0)

initialize_from_json(table, payload, reset) ==
    LET loaded == load_initial_json(payload)
    IN  IF loaded.err # "none"
        THEN [err |-> loaded.err, products |-> table, value |-> 0]
        ELSE insert_loop(IF reset THEN reset_and_create_schema(table)
                         ELSE create_schema_if_needed(table),
                         loaded.products, 0)

\* ---- console (cli.py): what a session does with an exception ----

\* The exception classes of inventory/exceptions.py that main() catches by kind.
InventoryErrors == {"NotFound", "InsufficientStock", "ConstraintViolation",
                    "ImportError"}

\* main(): a known kind is printed and the menu goes on; anything else is an
\* unexpected error and the session returns 1.
main_except(err) ==
    IF err = "none" THEN "ok"
    ELSE IF err \in InventoryErrors THEN "reported"
    ELSE "unexpected"

\* action_sell_product and action_update_product print a ValueError themselves.
action_except_ValueError(err) ==
    IF err = "ValueError" THEN "reported" ELSE main_except(err)

\* action_dashboard prints any exception itself.
action_except_Exception(err) ==
    IF err = "none" THEN "ok" ELSE "reported"

next_pc(shown) == IF shown = "unexpected" THEN "exited" ELSE "menu"

\* ---- state machine ----

NoReq == [op |-> "none"]
NoRes == [err |-> "pending"]

row(sku, name, unit_price_ht, quantity, vat_rate) ==
    [sku |-> sku, name |-> name, category |-> "c1",
     unit_price_ht |-> unit_price_ht, quantity |-> quantity,
     vat_rate |-> vat_rate]

\* Catalogs an earlier run of the program left in the store.
InitTables ==
    { <<>>,
      <<row("A", "n1", 10, MaxStock, 20)>>,
      <<row("A", "n1", 10, MaxStock, 20), row("B", "n2", 5, 1, 0)>> }

Init ==
    /\ products \in InitTables
    /\ sales = <<>>
    /\ pc = [p \in Procs |-> "menu"]
    /\ req = [p \in Procs |-> NoReq]
    /\ res = [p \in Procs |-> NoRes]

finish(p, err, shown, value) ==
    /\ res' = [res EXCEPT ![p] = [err |-> err, shown |-> shown, value |-> value]]
    /\ pc' = [pc EXCEPT ![p] = next_pc(shown)]
    /\ UNCHANGED req

\* main(): the menu choice and the prompts of the chosen entry.
menu_choice(p, r) ==
    /\ pc[p] = "menu"
    /\ r.op = "sell" =>
         Len(sales) + Cardinality({q \in Procs : pc[q] = "sell"}) < MaxSales
    /\ pc' = [pc EXCEPT ![p] = r.op]
    /\ req' = [req EXCEPT ![p] = r]
    /\ res' = [res EXCEPT ![p] = NoRes]
    /\ UNCHANGED <<products, sales>>

action_sell_product(p) ==
    /\ pc[p] = "sell"
    /\ LET r == sell_product(products, sales, req[p].sku, req[p].quantity)
       IN  /\ products' = r.products
           /\ sales' = r.sales
           /\ finish(p, r.err, action_except_ValueError(r.err), r.value)

action_update_product(p) ==
    /\ pc[p] = "update"
    /\ LET a == req[p]
           r == update_product(products, a.sku, a.name, a.category,
                               a.unit_price_ht, a.quantity, a.vat_rate)
       IN  /\ products' = r.products
           /\ finish(p, r.err, action_except_ValueError(r.err), NoValue)
    /\ UNCHANGED sales

action_delete_product(p) ==
    /\ pc[p] = "delete"
    /\ LET r == delete_product(products, req[p].sku)
       IN  /\ products' = r.products
           /\ finish(p, r.err, main_except(r.err), NoValue)
    /\ UNCHANGED sales

\* add_product up to the lookup; the insert is a second access to the store.
action_add_product_check(p) ==
    /\ pc[p] = "add"
    /\ LET err == add_product_check(products, req[p].prod)
       IN  IF err = "none"
           THEN /\ pc' = [pc EXCEPT ![p] = "add_insert"]
                /\ UNCHANGED <<req, res>>
           ELSE finish(p, err, main_except(err), NoValue)
    /\ UNCHANGED <<products, sales>>

action_add_product_insert(p) ==
    /\ pc[p] = "add_insert"
    /\ LET r == add_product_insert(products, req[p].prod)
       IN  /\ products' = r.products
           /\ finish(p, r.err, main_except(r.err), NoValue)
    /\ UNCHANGED sales

action_initialize(p) ==
    /\ pc[p] = "initialize"
    /\ LET r == initialize_from_json(products, req[p].payload, req[p].reset)
       IN  /\ products' = r.products
           /\ finish(p, r.err, main_except(r.err),
                     [kind |-> "count", count |-> r.value])
    /\ UNCHANGED sales

action_list_inventory(p) ==
    /\ pc[p] = "list"
    /\ finish(p, "none", "ok", [kind |-> "list", rows |-> list_inventory(products)])
    /\ UNCHANGED <<products, sales>>

\* InventoryManager defines no get_dashboard: the call in action_dashboard is an
\* AttributeError, printed by its own except clause.
get_dashboard(ledger) == [err |-> "AttributeError", value |-> NoValue]

action_dashboard(p) ==
    /\ pc[p] = "dashboard"
    /\ LET r == get_dashboard(sales)
       IN  finish(p, r.err, action_except_Exception(r.err), r.value)
    /\ UNCHANGED <<products, sales>>

\* ---- sales: concurrent sales, price and stock changes, the dashboard ----

sell_req(sku, quantity) == [op |-> "sell", sku |-> sku, quantity |-> quantity]

update_req(sku, name, category, unit_price_ht, quantity, vat_rate) ==
    [op |-> "update", sku |-> sku, name |-> name, category |-> category,
     unit_price_ht |-> unit_price_ht, quantity |-> quantity, vat_rate |-> vat_rate]

SaleRequests ==
    {sell_req(sku, q) : sku \in SKUs, q \in -1..(MaxStock + 1)}
    \cup {update_req(sku, None, None, Some(5), None, None) : sku \in SKUs}
    \cup {update_req("A", None, None, None, Some(-1), None),
          update_req("A", None, None, None, Some(MaxStock), None)}
    \cup {[op |-> "dashboard"]}

NextSale ==
    \/ \E p \in Procs, r \in SaleRequests : menu_choice(p, r)
    \/ \E p \in Procs : action_sell_product(p)
    \/ \E p \in Procs : action_update_product(p)
    \/ \E p \in Procs : action_dashboard(p)

SpecSale == Init /\ [][NextSale]_vars

\* ---- properties of the sale ----

stock(table, sku) == get_product_by_sku(table, sku).quantity

\* Session p's handler of menu entry op runs in this step.
runs(p, op) == pc[p] = op /\ pc'[p] # op

\* Session p has finished the handler of menu entry op.
done(p, op) == req[p].op = op /\ pc[p] \in {"menu", "exited"} /\ res[p] # NoRes

C1_step ==
    \A p \in Procs :
      LET sku == req[p].sku
          q == req[p].quantity
          prod == get_product_by_sku(products, sku)
      IN  (runs(p, "sell") /\ prod # NoProduct /\ 0 < q /\ q <= prod.quantity) =>
            /\ res'[p].err = "none"
            /\ Len(products') = Len(products)
            /\ \A i \in 1..Len(products) :
                 products'[i] =
                   IF products[i].sku = sku
                   THEN [products[i] EXCEPT !.quantity = prod.quantity - q]
                   ELSE products[i]
            /\ Len(sales') = Len(sales) + 1
            /\ SubSeq(sales', 1, Len(sales)) = sales
            /\ LET rec == sales'[Len(sales')]
                   ret == res'[p].value
               IN  /\ rec.sku = sku /\ rec.quantity = q
                   /\ rec.unit_price_ht = prod.unit_price_ht
                   /\ rec.vat_rate = prod.vat_rate
                   /\ rec.total_ht = (q * prod.unit_price_ht) * Percent
                   /\ rec.total_vat * Percent = rec.total_ht * prod.vat_rate
                   /\ rec.total_ttc = rec.total_ht + rec.total_vat
                   /\ ret.sku = sku /\ ret.quantity = q
                   /\ ret.total_ht = rec.total_ht
                   /\ ret.total_vat = rec.total_vat
                   /\ ret.total_ttc = rec.total_ttc

\* C1: a sale of 0 < qty <= stock of an existing product succeeds, lowers that
\* product's stock by exactly qty, appends exactly one ledger record, and the record
\* and the returned summary carry total_ht = qty * unit_price_ht,
\* total_vat = total_ht * vat_rate, total_ttc = total_ht + total_vat at the price and
\* rate the product has at the moment of the sale.
C1_Thm == [][C1_step]_vars

\* A sale of the whole stock of A went through at the price set by an update (5,
\* not the initial 10), with a non-zero tax.
C1_Witness ==
    \E p \in Procs :
      /\ done(p, "sell") /\ res[p].err = "none"
      /\ req[p].sku = "A" /\ req[p].quantity = MaxStock
      /\ res[p].value.total_ht = MaxStock * 5 * Percent
      /\ res[p].value.total_vat > 0

C2_step ==
    \A p \in Procs :
      LET prod == get_product_by_sku(products, req[p].sku)
      IN  (runs(p, "sell") /\ prod # NoProduct /\ req[p].quantity > prod.quantity) =>
            /\ res'[p].err = "InsufficientStock"
            /\ res'[p].shown = "reported"
            /\ products' = products
            /\ sales' = sales

\* C2: a sale of more than the current stock of an existing product fails with
\* InsufficientStock; the catalog and the ledger are unchanged.
C2_Thm == [][C2_step]_vars

\* A sale was refused for lack of stock although an earlier sale is in the ledger.
C2_Witness ==
    \E p \in Procs :
      /\ done(p, "sell") /\ res[p].err = "InsufficientStock"
      /\ req[p].quantity <= MaxStock
      /\ Len(sales) > 0

StockNonNeg == \A i \in 1..Len(products) : products[i].quantity >= 0

C3_step ==
    \A p \in Procs :
      LET sku == req[p].sku
          q == req[p].quantity
          prod == get_product_by_sku(products, sku)
      IN  (runs(p, "sell") /\ q > 0 /\ prod # NoProduct) =>
            \* the call ends as it would running alone at this point of the serial order
            /\ (res'[p].err = "none") <=> (q <= prod.quantity)
            /\ res'[p].err = "none" => stock(products', sku) = prod.quantity - q
            /\ res'[p].err # "none" => stock(products', sku) = prod.quantity
            \* a concurrent sale of the same product that the stock cannot serve as well
            \* can no longer succeed
            /\ \A o \in Procs \ {p} :
                 (/\ pc[o] = "sell" /\ req[o].sku = sku /\ req[o].quantity > 0
                  /\ q + req[o].quantity > prod.quantity
                  /\ res'[p].err = "none")
                 => req[o].quantity > stock(products', sku)

\* C3: concurrent sales of one product end as in a serial order: each succeeds
\* exactly when the stock left by the sales before it covers it, two concurrent sales
\* never both succeed when the stock covers only one, and no stock is ever negative.
C3_Thm == []StockNonNeg /\ [][C3_step]_vars

\* Two sessions sold the same product at once; each request alone was within the
\* stock, one went through and the other was refused.
C3_Witness ==
    \E p \in Procs, o \in Procs :
      /\ p # o /\ done(p, "sell") /\ done(o, "sell")
      /\ req[p].sku = req[o].sku
      /\ res[p].err = "none" /\ res[o].err = "InsufficientStock"
      /\ req[o].quantity <= stock(products, req[o].sku) + req[p].quantity
      /\ Len(sales) = 1

C4_step ==
    /\ sales' # sales =>
         \E p \in Procs :
           /\ runs(p, "sell") /\ res'[p].err = "none"
           /\ Len(sales') = Len(sales) + 1
           /\ SubSeq(sales', 1, Len(sales)) = sales
           /\ LET rec == sales'[Len(sales')]
              IN  /\ rec.quantity > 0
                  /\ stock(products', rec.sku) = stock(products, rec.sku) - rec.quantity
    /\ \A p \in Procs :
         runs(p, "sell") =>
           /\ (products' # products) <=> (sales' # sales)
           /\ res'[p].err = "none" <=> sales' # sales

\* C4: the stock decrement of a sale and its ledger record become visible in the same
\* step or not at all: the ledger grows only together with the decrement of the
\* recorded quantity, and a sale changes the catalog exactly when it changes the ledger.
C4_Thm == [][C4_step]_vars

\* Two sales are in the ledger and the stock of A is what they left.
C4_Witness ==
    /\ Len(sales) = MaxSales
    /\ \E p \in Procs : done(p, "sell") /\ res[p].err = "none"
    /\ get_product_by_sku(products, "A") # NoProduct
    /\ stock(products, "A") < MaxStock

C5_step ==
    \A p \in Procs :
      (runs(p, "sell") /\ req[p].quantity <= 0) =>
        /\ res'[p].err = "ValueError"
        /\ res'[p].shown = "reported"
        /\ res'[p].err \notin {"NotFound", "InsufficientStock"}
        /\ products' = products
        /\ sales' = sales

\* C5: a sale of a quantity <= 0 fails with the validation error (Python's
\* ValueError, printed by the console) whatever the SKU, before the store is
\* consulted: the catalog and the ledger are unchanged.
C5_Thm == [][C5_step]_vars

\* A sale of quantity 0 of a SKU that is not in the catalog was refused as invalid
\* (the store would have said NotFound).
C5_Witness ==
    \E p \in Procs :
      /\ done(p, "sell") /\ res[p].err = "ValueError"
      /\ req[p].quantity = 0
      /\ get_product_by_sku(products, req[p].sku) = NoProduct

\* ---- the dashboard ----

RECURSIVE sum_of(_, _)
sum_of(ledger, field) ==
    IF ledger = <<>> THEN 0 ELSE Head(ledger)[field] + sum_of(Tail(ledger), field)

\* The aggregate of the ledger (section 4.4), under the keys action_dashboard reads.
computeStats(ledger) ==
    [kind |-> "stats",
     nb_ventes |-> Len(ledger),
     qty_totale |-> sum_of(ledger, "quantity"),
     ca_ht |-> sum_of(ledger, "total_ht"),
     tva_totale |-> sum_of(ledger, "total_vat"),
     ca_ttc |-> sum_of(ledger, "total_ttc")]

C8_step ==
    \A p \in Procs :
      runs(p, "dashboard") =>
        /\ res'[p].err = "none"
        /\ res'[p].value = computeStats(sales)

\* C8: the dashboard returns the aggregate of the current ledger (count, total
\* quantity, sums of total_ht, total_vat, total_ttc), all zero on an empty ledger, and
\* does not fail.
C8_Claim == [][C8_step]_vars

\* ---- catalog: add (two accesses to the store), update, delete, list ----

add_req(prod) == [op |-> "add", prod |-> prod]

AddRequests ==
    {add_req(row("A", "n2", 5, 1, 0)),
     add_req(row("B", "n1", 7, 0, Percent)),
     add_req(row("B", "n2", 5, 1, 20)),
     add_req(row("A", "n1", -1, 1, 20)),
     add_req(row("B", "n1", 5, -1, 20)),
     add_req(row("A", "n1", 5, 1, Percent + 1))}

UpdateRequests ==
    {update_req(sku, a[1], None, a[2], a[3], a[4]) :
       sku \in SKUs,
       a \in {<<None, None, Some(-1), None>>,
              <<Some("n2"), Some(7), Some(-1), Some(0)>>,
              <<Some("n2"), Some(-1), Some(0), None>>,
              <<Some("n2"), None, None, Some(Percent + 1)>>,
              <<None, Some(7), None, Some(-1)>>,
              <<Some("n2"), Some(7), Some(0), None>>}}

CatalogRequests ==
    AddRequests \cup UpdateRequests
    \cup {[op |-> "delete", sku |-> sku] : sku \in SKUs}
    \cup {[op |-> "list"]}

NextCatalog ==
    \/ \E p \in Procs, r \in CatalogRequests : menu_choice(p, r)
    \/ \E p \in Procs : action_add_product_check(p)
    \/ \E p \in Procs : action_add_product_insert(p)
    \/ \E p \in Procs : action_update_product(p)
    \/ \E p \in Procs : action_delete_product(p)
    \/ \E p \in Procs : action_list_inventory(p)

SpecCatalog == Init /\ [][NextCatalog]_vars

C6_step ==
    \A p \in Procs :
      LET prod == req[p].prod
      IN  (/\ runs(p, "add") \/ runs(p, "add_insert")
           /\ add_fields_valid(prod.unit_price_ht, prod.quantity, prod.vat_rate)
           /\ get_product_by_sku(products, prod.sku) # NoProduct) =>
            /\ res'[p].err = "ConstraintViolation"
            /\ products' = products

\* C6: adding a product whose SKU is already in the catalog fails with
\* ConstraintViolation and leaves the catalog unchanged, whether the two inserts of
\* the SKU follow one another or interleave.
C6_Claim == [][C6_step]_vars

bad_update(a) ==
    \/ a.quantity # None /\ a.quantity[1] < 0
    \/ a.unit_price_ht # None /\ a.unit_price_ht[1] < 0
    \/ a.vat_rate # None /\ (a.vat_rate[1] < 0 \/ a.vat_rate[1] > Percent)

C7_step ==
    \A p \in Procs :
      (runs(p, "update") /\ bad_update(req[p])) =>
        /\ res'[p].err = "ValueError"
        /\ res'[p].shown = "reported"
        /\ products' = products

\* C7: update_product with a negative quantity, a negative unit_price_ht or a
\* vat_rate outside [0, 1] fails with the validation error without reaching the
\* store: the stored product keeps every field, whatever else the call supplied.
C7_Thm == [][C7_step]_vars

\* An update of an existing product named n1 that carried a new name, a new price
\* and the quantity -1 was refused; the product is still named n1.
C7_Witness ==
    \E p \in Procs :
      /\ done(p, "update") /\ res[p].err = "ValueError"
      /\ req[p].quantity = Some(-1) /\ req[p].name = Some("n2")
      /\ req[p].unit_price_ht = Some(7)
      /\ get_product_by_sku(products, req[p].sku) # NoProduct
      /\ get_product_by_sku(products, req[p].sku).name = "n1"

\* ---- bulk import ----

item(sku, name, category, unit_price_ht, quantity, vat_rate) ==
    [sku |-> sku, name |-> name, category |-> category,
     unit_price_ht |-> unit_price_ht, quantity |-> quantity, vat_rate |-> vat_rate]

ImportItems ==
    {item(Some("A"), Some("n2"), Some("c1"), Some(7), Some(1), Some(Percent)),
     item(Some("B"), Some("n1"), Some("c1"), Some(0), Some(0), Some(0)),
     item(Some("A"), Some("n1"), Some("c1"), Some(-1), Some(1), Some(20)),
     item(Some("B"), Some("n1"), Some("c1"), Some(5), Some(-1), Some(20)),
     item(Some("A"), Some("n1"), Some("c1"), Some(5), Some(1), Some(Percent + 1)),
     item(Some("B"), None, Some("c1"), Some(5), Some(1), Some(20))}

Payloads == UNION {[1..n -> ImportItems] : n \in 0..MaxImport}

ImportRequests ==
    {[op |-> "initialize", payload |-> pl, reset |-> rs] :
       pl \in Payloads, rs \in BOOLEAN}

\* One session imports, deletes and reads the inventory.
NextImport ==
    \/ \E r \in ImportRequests : menu_choice("s1", r)
    \/ \E r \in {[op |-> "delete", sku |-> "A"], [op |-> "list"]} :
         menu_choice("s1", r)
    \/ action_initialize("s1")
    \/ action_delete_product("s1")
    \/ action_list_inventory("s1")

SpecImport == Init /\ [][NextImport]_vars

distinct_skus(payload) ==
    \A i, j \in 1..Len(payload) : payload[i].sku = payload[j].sku => i = j

C9_step ==
    /\ \A p \in Procs :
         LET pl == req[p].payload
         IN  (/\ runs(p, "initialize") /\ req[p].reset
              /\ \A i \in 1..Len(pl) : item_valid(pl[i])
              /\ distinct_skus(pl)) =>
               /\ res'[p].err = "none"
               /\ res'[p].value.count = Len(pl)
               /\ Len(list_inventory(products')) = Len(pl)
               /\ \A i \in 1..Len(pl) :
                    LET got == list_inventory(products')[i]
                    IN  /\ Some(got.sku) = pl[i].sku
                        /\ Some(got.name) = pl[i].name
                        /\ Some(got.category) = pl[i].category
                        /\ Some(got.unit_price_ht) = pl[i].unit_price_ht
                        /\ Some(got.quantity) = pl[i].quantity
                        /\ Some(got.vat_rate) = pl[i].vat_rate
    /\ \A p \in Procs :
         runs(p, "list") => res'[p].value.rows = list_inventory(products)

\* C9: an import with reset of a valid product list with distinct SKUs, on any prior
\* catalog, leaves list_inventory returning exactly the imported products: as many
\* rows as descriptors, none of the earlier rows, every field equal to the input.
C9_Thm == [][C9_step]_vars

\* An import with reset of B then A (A named n2, at price 7, unlike any row the
\* store starts with) went through: the inventory lists those two rows, in that order.
C9_Witness ==
    /\ done("s1", "initialize") /\ res["s1"].err = "none" /\ req["s1"].reset
    /\ Len(req["s1"].payload) = 2
    /\ req["s1"].payload[1].sku = Some("B")
    /\ res["s1"].value.count = 2
    /\ Len(list_inventory(products)) = 2
    /\ list_inventory(products)[1].sku = "B"
    /\ list_inventory(products)[2].name = "n2"
    /\ list_inventory(products)[2].unit_price_ht = 7

CatalogValid ==
    \A i \in 1..Len(products) :
      /\ products[i].unit_price_ht >= 0
      /\ products[i].quantity >= 0
      /\ 0 <= products[i].vat_rate /\ products[i].vat_rate <= Percent

C10_step ==
    \A p \in Procs :
      LET pl == req[p].payload
      IN  (runs(p, "initialize") /\ \E i \in 1..Len(pl) : ~item_valid(pl[i])) =>
            /\ res'[p].err = "ImportError"
            /\ res'[p].shown = "reported"

\* C10: an import whose payload has a record with a missing field, a negative price,
\* a negative quantity or a tax rate outside [0, 1] fails with ImportError, and no
\* such record reaches the catalog: every stored product has unit_price_ht >= 0,
\* quantity >= 0 and 0 <= vat_rate <= 1.
C10_Thm == []CatalogValid /\ [][C10_step]_vars

\* An import without reset whose second record has a tax rate above 1 was refused
\* while the catalog holds products.
C10_Witness ==
    /\ done("s1", "initialize") /\ res["s1"].err = "ImportError"
    /\ ~req["s1"].reset
    /\ Len(req["s1"].payload) = 2
    /\ item_valid(req["s1"].payload[1])
    /\ req["s1"].payload[2].vat_rate = Some(Percent + 1)
    /\ Len(products) > 0

====
